---- MODULE Spec2Model ----
(***************************************************************************)
(* Model of RTL433_WeatherStation.py: the start-up configuration checks,   *)
(* the ingestion loop (one action per loop iteration; in the runs with the *)
(* reader thread, one action per stretch between the waits in q.get and    *)
(* urlopen), the reader thread and its queue, the temperature              *)
(* smoother streamRoll, the wind-direction correction wd_correct and the   *)
(* Weather Underground upload.                                             *)
(*                                                                         *)
(* Python's None is the empty tuple <<>> and a present value v is <<v>>.   *)
(* Floating-point arithmetic is modelled by exact rationals <<n, d>>,      *)
(* d > 0, kept in lowest terms.                                            *)
(***************************************************************************)
EXTENDS Integers, Sequences, FiniteSets, TLC

VARIABLES
    pc,               \* "startup", "exit1", "loop" (line 316), "get" (waiting in
                      \* q.get, line 321), "upload" (waiting in urlopen, line 264)
                      \* or "crashed" (uncaught exception)
    UPLOAD_INTERVAL,  \* line 66, optional
    WEATHER_UPLOAD,   \* line 69
    wu_station_id,    \* line 87, optional
    wu_station_key,   \* line 88, optional
    feed,             \* the lines q.get can return in this run
    horizon,          \* upload_timer value up to which this run is explored
    have_hum, have_temp, have_wd, have_ws,   \* lines 302-305
    pulse,            \* line 306
    upload_timer,     \* line 308
    hum, tempC, windDir, windSpeed,          \* lines 309-312
    roll,             \* line 313
    tempTrack,        \* line 314
    lastEvent,        \* what the latest iteration dequeued
    tempVerdict,      \* the decision of lines 369-372 in the latest iteration
    cycleComplete,    \* the outcome of the check of lines 389-394 in the latest iteration
    silentSignal,     \* line 399 was printed in the latest iteration
    sent,             \* the upload of the latest iteration
    seen,             \* what has been ingested since the last flag reset, as of the latest check
    tempLog,          \* the newest temperature readings processed since start-up
    gatePulse,        \* pulse as left by lines 325/328 of the latest iteration
    timeouts, lines,  \* Empty results and lines dequeued since pulse was last reset
    timerAtCheck,     \* upload_timer as left by line 317 of the latest iteration
    shown,            \* the call of display_data in the latest iteration
    ever,             \* the fields processed since start-up
    q,                \* line 282: the lines put and not yet got
    enq, deq,         \* the lines put so far, the lines got so far
    putAt,            \* where the main thread was at each put so far
    wd_in, wd_out     \* argument and result of a call of wd_correct

vars == <<pc, UPLOAD_INTERVAL, WEATHER_UPLOAD, wu_station_id, wu_station_key, feed, horizon,
          have_hum, have_temp, have_wd, have_ws, pulse, upload_timer,
          hum, tempC, windDir, windSpeed, roll, tempTrack,
          lastEvent, tempVerdict, cycleComplete, silentSignal, sent, seen, tempLog,
          gatePulse, timeouts, lines, timerAtCheck, shown, ever, q, enq, deq, putAt,
          wd_in, wd_out>>

cfgVars == <<UPLOAD_INTERVAL, WEATHER_UPLOAD, wu_station_id, wu_station_key, feed, horizon>>
loopVars == <<have_hum, have_temp, have_wd, have_ws, pulse, upload_timer,
              hum, tempC, windDir, windSpeed, roll, tempTrack>>
obsVars == <<lastEvent, tempVerdict, cycleComplete, silentSignal, sent, seen, tempLog,
             gatePulse, timeouts, lines, timerAtCheck, shown, ever>>
queueVars == <<q, enq, deq, putAt>>
wdVars == <<wd_in, wd_out>>

-----------------------------------------------------------------------------
(* Bounds *)

\* iterations explored after a reset of upload_timer, per specification
MaxTimer == 5
SmoothTimer == 9
StartTimer == 4
\* the upload interval of the runs of Spec
SmallInterval == 3
\* length of the log of processed temperature readings
LogLen == 6

-----------------------------------------------------------------------------
(* Program constants *)

pulse_timeout == 400000
rollingAveNum == 5
MaxInterval == 3600
TempTolerance == 5
WdShift == 90
FullCircle == 360

None == <<>>
Some(v) == <<v>>

-----------------------------------------------------------------------------
(* Exact arithmetic *)

Abs(x) == IF x < 0 THEN -x ELSE x

RECURSIVE GCD(_, _)
GCD(a, b) == IF b = 0 THEN a ELSE GCD(b, a % b)

Rat(n, d) ==
    LET g == GCD(Abs(n), d)
    IN  IF n = 0 THEN <<0, 1>> ELSE <<n \div g, d \div g>>

FromInt(x) == <<x, 1>>
RAdd(a, b) == Rat(a[1] * b[2] + b[1] * a[2], a[2] * b[2])
RSub(a, b) == Rat(a[1] * b[2] - b[1] * a[2], a[2] * b[2])
RDivInt(a, k) == Rat(a[1], a[2] * k)
RAbs(a) == <<Abs(a[1]), a[2]>>
RLess(a, b) == a[1] * b[2] < b[1] * a[2]

RECURSIVE Sum(_)
Sum(s) == IF s = <<>> THEN 0 ELSE Head(s) + Sum(Tail(s))

RECURSIVE SeqMax(_)
SeqMax(s) == IF Len(s) = 1 THEN s[1]
             ELSE LET m == SeqMax(Tail(s)) IN IF s[1] > m THEN s[1] ELSE m

\* np.mean
Mean(s) == Rat(Sum(s), Len(s))

\* s[-k:]
LastK(s, k) == IF Len(s) <= k THEN s ELSE SubSeq(s, Len(s) - k + 1, Len(s))

-----------------------------------------------------------------------------
(* Helper functions of the program *)

\* streamRoll averaging the whole history instead of its last three entries
streamRoll_WholeHistory(daList) ==
    RAdd(Mean(daList),
         RDivInt(RSub(FromInt(daList[Len(daList)]), Mean(daList)), Len(daList)))

\* streamRoll without the correction term: the plain mean of the window
streamRoll_PlainMean(daList) ==
    IF Len(daList) < 3 THEN Mean(daList) ELSE Mean(LastK(daList, 3))

streamRoll(daList) ==
    IF Len(daList) < 3
    THEN RAdd(Mean(daList),
              RDivInt(RSub(FromInt(daList[Len(daList)]), Mean(daList)), Len(daList)))
    ELSE RAdd(Mean(LastK(daList, 3)),
              RDivInt(RSub(FromInt(daList[Len(daList)]), Mean(LastK(daList, 3))),
                      Len(LastK(daList, 3))))

\* wd is a rational; the function body has no return statement
wd_correct(wd) ==
    LET new_wd0 == RSub(wd, FromInt(WdShift))
        new_wd1 == IF RLess(new_wd0, FromInt(0))
                   THEN RAdd(new_wd0, FromInt(FullCircle)) ELSE new_wd0
        new_wd2 == IF ~RLess(new_wd1, FromInt(FullCircle))
                   THEN RSub(new_wd1, FromInt(FullCircle)) ELSE new_wd1
    IN  [new_wd |-> new_wd2, returned |-> None].returned

\* clearVars handing back a wind speed list that still holds a value
clearVars_StaleWindSpeed == [a1 |-> <<>>, a2 |-> <<>>, a3 |-> <<>>, a4 |-> <<0>>, a5 |-> 0]

\* clearVars handing back a pulse of 1
clearVars_StalePulse == [a1 |-> <<>>, a2 |-> <<>>, a3 |-> <<>>, a4 |-> <<>>, a5 |-> 1]

clearVars == [a1 |-> <<>>, a2 |-> <<>>, a3 |-> <<>>, a4 |-> <<>>, a5 |-> 0]

\* upload_weather letting the network error escape
upload_weather_Propagates(netOk, windDirArg) ==
    [raised        |-> ~netOk,
     status        |-> IF netOk THEN "ok" ELSE "failed",
     winddir_avg2m |-> None,
     winddir       |-> None,
     windgustdir   |-> None]

\* The upload: the parameters that carry a wind direction, and how the
\* request ended.  netOk is the outcome of urlopen/read.
upload_weather(netOk, windDirArg) ==
    [raised        |-> FALSE,
     status        |-> IF netOk THEN "ok" ELSE "failed",
     winddir_avg2m |-> wd_correct(Mean(windDirArg)),
     winddir       |-> wd_correct(FromInt(SeqMax(windDirArg))),
     windgustdir   |-> wd_correct(FromInt(SeqMax(windDirArg)))]

NotSent == [status |-> "none", tempC |-> None, winddir_avg2m |-> None, winddir |-> None,
            windgustdir |-> None]

\* np.max of an empty list raises ValueError; np.mean of one gives nan
display_data(h, c, wd, ws) ==
    [raised |-> (ws = <<>>) \/ (wd = <<>>)]

NotShown == [called |-> FALSE, h |-> <<>>, c |-> <<>>, wd |-> <<>>, ws |-> <<>>]

-----------------------------------------------------------------------------
(* Lines of the rtl_433 output *)

Fields == {"humidity", "wind_direction", "wind_speed_ms", "temperature_C"}
Header == {"time", "id", "model"}

HumVal == 50
WdVal == 45
WsVal == 3

\* a JSON object with the header columns, the fields F and temperature t
Rec(F, t) ==
    [json |-> TRUE, cols |-> Header \cup F,
     humidity       |-> IF "humidity" \in F THEN HumVal ELSE 0,
     wind_direction |-> IF "wind_direction" \in F THEN WdVal ELSE 0,
     wind_speed_ms  |-> IF "wind_speed_ms" \in F THEN WsVal ELSE 0,
     temperature_C  |-> IF "temperature_C" \in F THEN t ELSE 0]

\* text that is no JSON, and JSON objects without the time or the id column
NotJson == [json |-> FALSE, cols |-> {}, humidity |-> 0, wind_direction |-> 0,
            wind_speed_ms |-> 0, temperature_C |-> 0]
NoTime  == [Rec({"humidity"}, 0) EXCEPT !.cols = {"id", "model", "humidity"}]
NoId    == [Rec({"humidity"}, 0) EXCEPT !.cols = {"time", "model", "humidity"}]

Temps == {10, 40}
SmoothTemps == {10, 13, 20, 40}

MainFeed   == {Rec(F, t) : F \in SUBSET Fields, t \in Temps} \cup {NotJson, NoTime}
SmoothFeed == {Rec({"temperature_C"}, t) : t \in SmoothTemps}
StartFeed  == {Rec({"humidity"}, 0), NoId}

\* pd.read_json(reading, lines=True).set_index("time").drop(["id", "model"], axis=1)
ParseOk(ln) == ln.json /\ Header \subseteq ln.cols
Columns(ln) == ln.cols \ Header

-----------------------------------------------------------------------------
(* Start-up *)

\* the configuration check also refusing intervals that are not positive
ConfigAccepted_PositiveOnly(interval, id, key) ==
    /\ ~((interval = None) \/ (interval[1] <= 0) \/ (interval[1] > MaxInterval))
    /\ ~((id = None) \/ (key = None))

\* lines 80 and 90: TRUE when the program goes on
ConfigAccepted(interval, id, key) ==
    /\ ~((interval = None) \/ (interval[1] > MaxInterval))
    /\ ~((id = None) \/ (key = None))

LoopInit ==
    /\ have_hum = FALSE /\ have_temp = FALSE /\ have_wd = FALSE /\ have_ws = FALSE
    /\ pulse = 0
    /\ upload_timer = 0
    /\ hum = <<>> /\ tempC = <<>> /\ windDir = <<>> /\ windSpeed = <<>>
    /\ roll = <<>>
    /\ tempTrack = <<>>

NothingSeen == [hum |-> FALSE, wd |-> FALSE, ws |-> FALSE, tempAccepted |-> FALSE,
                tempLatest |-> "none"]

ObsInit ==
    /\ lastEvent = "none"
    /\ tempVerdict = "none"
    /\ cycleComplete = FALSE
    /\ silentSignal = FALSE
    /\ sent = NotSent
    /\ seen = NothingSeen
    /\ tempLog = <<>>
    /\ gatePulse = 0 /\ timeouts = 0 /\ lines = 0
    /\ timerAtCheck = 0
    /\ shown = NotShown
    /\ ever = {}
    /\ q = <<>> /\ enq = <<>> /\ deq = <<>> /\ putAt = {}

Init ==
    /\ pc = "startup"
    /\ UPLOAD_INTERVAL = Some(SmallInterval)
    /\ WEATHER_UPLOAD \in BOOLEAN
    /\ wu_station_id = Some("id")
    /\ wu_station_key = Some("key")
    /\ feed = MainFeed
    /\ horizon = MaxTimer
    /\ LoopInit /\ ObsInit
    /\ wd_in = None /\ wd_out = None

Startup ==
    /\ pc = "startup"
    /\ pc' = IF ConfigAccepted(UPLOAD_INTERVAL, wu_station_id, wu_station_key)
             THEN "loop" ELSE "exit1"
    /\ UNCHANGED <<cfgVars, loopVars, obsVars, queueVars, wdVars>>

-----------------------------------------------------------------------------
(* The main loop, lines 316-429: one action per iteration *)

\* the trim deleting the newest entries instead of the oldest
TrimTrack_DropsNewest(t) ==
    IF Len(t) > rollingAveNum THEN SubSeq(t, 1, rollingAveNum - 1) ELSE t

\* lines 359-362
TrimTrack(t) ==
    IF Len(t) > rollingAveNum
    THEN SubSeq(t, (Len(t) - (rollingAveNum - 1)) + 1, Len(t))
    ELSE t

\* the decision that never rejects
TempAccepted_Always(track, r) == TRUE

\* the decision rejecting a deviation of exactly the tolerance
TempAccepted_Strict(track, r) ==
    IF RLess(RAbs(RSub(FromInt(track[Len(track)]), r)), FromInt(TempTolerance))
    THEN TRUE
    ELSE FALSE

\* lines 369-372: the value given to have_temp
TempAccepted(track, r) ==
    IF RLess(FromInt(TempTolerance), RAbs(RSub(FromInt(track[Len(track)]), r)))
    THEN FALSE
    ELSE TRUE

\* the completeness check leaving out the wind speed flag
IsComplete_NoWindSpeed(hh, ht, hwd, hws) ==
    (hh = TRUE) /\ (ht = TRUE) /\ (hwd = TRUE)

\* the completeness check leaving out the humidity flag
IsComplete_NoHumidity(hh, ht, hwd, hws) ==
    (ht = TRUE) /\ (hwd = TRUE) /\ (hws = TRUE)

\* lines 389-394
IsComplete(hh, ht, hwd, hws) ==
    (hh = TRUE) /\ (ht = TRUE) /\ (hwd = TRUE) /\ (hws = TRUE)

\* the pulse update without the decrement for a received line
PulseAfter_NoDecrement(got, p) == IF got THEN p ELSE p + 1

\* lines 325 and 328
PulseAfter(got, p) == IF got THEN p - 1 ELSE p + 1

\* the gate also letting through a line that brings pulse to 0
GateOpen_NonNegative(p) == p >= 0

\* line 333
GateOpen(p) == p > 0

\* the upload branch taken as soon as the timer reaches the interval
UploadDue_AtInterval(timer, interval) == timer >= interval

\* line 405
UploadDue(timer, interval) == timer > interval

\* the flag raised by every record, with or without the field
FlagAfter_AlwaysTrue(present, flag) == TRUE

\* the flag following the latest record instead of latching
FlagAfter_Overwrite(present, flag) == present

\* lines 345-353: a have_* flag after a record with or without the field
FlagAfter(present, flag) == IF present THEN TRUE ELSE flag

\* the silence check made in every iteration, outside the branch
SilentCheck_Unnested(complete, p) == p > pulse_timeout

\* lines 398-399, inside the branch of lines 389-394
SilentCheck(complete, p) == complete /\ (p > pulse_timeout)

\* Lines 320-404 of an iteration whose line 317 left upload_timer at timer1:
\* got is FALSE when q.get raised Empty, else ln is the line.  The record
\* holds the values of the loop's variables when the iteration reaches the
\* upload branch of line 405, and what it decided on the way.
Ingest(timer1, got, ln) ==
    LET pulse1   == PulseAfter(got, pulse)
        open     == got /\ GateOpen(pulse1)
        parseErr == open /\ ~ParseOk(ln)
        cols     == IF open /\ ParseOk(ln) THEN Columns(ln) ELSE {}
        hasH     == "humidity" \in cols
        hasWd    == "wind_direction" \in cols
        hasWs    == "wind_speed_ms" \in cols
        hasT     == "temperature_C" \in cols
        hum1     == IF hasH THEN Append(hum, ln.humidity) ELSE hum
        hh1      == FlagAfter(hasH, have_hum)
        wd1      == IF hasWd THEN Append(windDir, ln.wind_direction) ELSE windDir
        hwd1     == FlagAfter(hasWd, have_wd)
        ws1      == IF hasWs THEN Append(windSpeed, ln.wind_speed_ms) ELSE windSpeed
        hws1     == FlagAfter(hasWs, have_ws)
        tempC1   == IF hasT THEN <<ln.temperature_C>> ELSE tempC
        track1   == IF hasT THEN TrimTrack(Append(tempTrack, ln.temperature_C))
                    ELSE tempTrack
        roll1    == IF hasT THEN streamRoll(track1) ELSE roll
        ht1      == IF hasT THEN TempAccepted(track1, roll1) ELSE have_temp
        complete == ~parseErr /\ IsComplete(hh1, ht1, hwd1, hws1)
        dispErr  == complete /\ display_data(hum1, tempC1, wd1, ws1).raised
        due      == complete /\ ~dispErr /\ UploadDue(timer1, UPLOAD_INTERVAL[1])
        \* line 408: tempC[-1] raises IndexError on an empty list
        argErr   == due /\ WEATHER_UPLOAD /\ (tempC1 = <<>>)
        calls    == due /\ WEATHER_UPLOAD /\ ~argErr
    IN  [pulse1 |-> pulse1, open |-> open, parseErr |-> parseErr, cols |-> cols,
         hasH |-> hasH, hasWd |-> hasWd, hasWs |-> hasWs, hasT |-> hasT,
         hum1 |-> hum1, hh1 |-> hh1, wd1 |-> wd1, hwd1 |-> hwd1,
         ws1 |-> ws1, hws1 |-> hws1, tempC1 |-> tempC1,
         track1 |-> track1, roll1 |-> roll1, ht1 |-> ht1,
         complete |-> complete, dispErr |-> dispErr, due |-> due,
         argErr |-> argErr, calls |-> calls]

\* The loop's variables as they stand while the iteration is inside
\* upload_weather (line 406), in the shape Ingest gives them
AtUpload ==
    [pulse1 |-> pulse, hum1 |-> hum, hh1 |-> have_hum, wd1 |-> windDir,
     hwd1 |-> have_wd, ws1 |-> windSpeed, hws1 |-> have_ws, tempC1 |-> tempC,
     track1 |-> tempTrack, roll1 |-> roll, ht1 |-> have_temp]

\* Lines 405-429: what the iteration leaves in the loop's variables; flush is
\* TRUE when lines 421-422 run, reset when lines 426-429 run.
Finish(i, timer1, flush, reset) ==
    LET cleared == clearVars
    IN  /\ upload_timer' = IF flush THEN 0 ELSE timer1
        /\ pulse' = IF flush THEN cleared.a5 ELSE i.pulse1
        /\ hum' = IF flush THEN cleared.a1 ELSE i.hum1
        /\ tempC' = IF flush THEN cleared.a2 ELSE i.tempC1
        /\ windDir' = IF flush THEN cleared.a3 ELSE i.wd1
        /\ windSpeed' = IF flush THEN cleared.a4 ELSE i.ws1
        /\ have_hum' = IF reset THEN FALSE ELSE i.hh1
        /\ have_temp' = IF reset THEN FALSE ELSE i.ht1
        /\ have_wd' = IF reset THEN FALSE ELSE i.hwd1
        /\ have_ws' = IF reset THEN FALSE ELSE i.hws1
        /\ roll' = i.roll1
        /\ tempTrack' = i.track1

\* the record of a call of upload_weather with temperature list c1
SentOf(up, c1) ==
    [status |-> up.status, tempC |-> Some(c1[Len(c1)]),
     winddir_avg2m |-> up.winddir_avg2m,
     winddir |-> up.winddir, windgustdir |-> up.windgustdir]

\* the observations of an iteration, the upload apart
Observe(i, timer1, got, ln) ==
    LET fresh    == timer1 = 1
        seen0    == IF cycleComplete THEN NothingSeen ELSE seen
        verdict  == IF i.hasT THEN (IF i.ht1 THEN "accepted" ELSE "rejected")
                    ELSE "none"
    IN  /\ lastEvent' = IF ~got THEN "timeout"
                        ELSE IF ~i.open THEN "gated"
                        ELSE IF i.parseErr THEN "malformed" ELSE "record"
        /\ tempVerdict' = verdict
        /\ cycleComplete' = i.complete
        /\ silentSignal' = (~i.dispErr /\ SilentCheck(i.complete, i.pulse1))
        /\ seen' = [hum |-> seen0.hum \/ i.hasH,
                    wd |-> seen0.wd \/ i.hasWd,
                    ws |-> seen0.ws \/ i.hasWs,
                    tempAccepted |-> seen0.tempAccepted \/ (i.hasT /\ i.ht1),
                    tempLatest |-> IF i.hasT THEN verdict ELSE seen0.tempLatest]
        /\ tempLog' = IF i.hasT THEN LastK(Append(tempLog, ln.temperature_C), LogLen)
                      ELSE tempLog
        /\ gatePulse' = i.pulse1
        /\ timeouts' = (IF fresh THEN 0 ELSE timeouts) + (IF got THEN 0 ELSE 1)
        /\ lines' = (IF fresh THEN 0 ELSE lines) + (IF got THEN 1 ELSE 0)
        /\ timerAtCheck' = timer1
        /\ shown' = IF i.complete
                    THEN [called |-> TRUE, h |-> i.hum1, c |-> i.tempC1,
                          wd |-> i.wd1, ws |-> i.ws1]
                    ELSE NotShown
        /\ ever' = ever \cup (i.cols \cap Fields)

\* Lines 320-429 of an iteration whose line 317 left upload_timer at timer1;
\* netOk is the outcome of the network request, should one be made.
ToEnd(timer1, got, ln) ==
    LET i == Ingest(timer1, got, ln)
    IN  \E netOk \in IF i.calls THEN BOOLEAN ELSE {TRUE} :
    LET upErr    == i.argErr \/ (i.calls /\ upload_weather(netOk, i.wd1).raised)
        flush    == i.due /\ ~upErr
        reset    == i.complete /\ ~i.dispErr /\ ~upErr
    IN  /\ pc' = IF i.parseErr \/ i.dispErr \/ upErr THEN "crashed" ELSE "loop"
        /\ Finish(i, timer1, flush, reset)
        /\ Observe(i, timer1, got, ln)
        /\ sent' = IF ~i.due THEN NotSent
                   ELSE IF ~WEATHER_UPLOAD THEN [NotSent EXCEPT !.status = "skipped"]
                   ELSE IF i.argErr THEN [NotSent EXCEPT !.status = "raised"]
                   ELSE SentOf(upload_weather(netOk, i.wd1), i.tempC1)

\* One whole iteration, lines 317-429, where no other thread is looked at
Iteration(got, ln) == ToEnd(upload_timer + 1, got, ln)

\* q.get(timeout=1) raises Empty
DequeueTimeout ==
    /\ pc = "loop"
    /\ upload_timer < horizon
    /\ Iteration(FALSE, NotJson)
    /\ UNCHANGED <<cfgVars, queueVars, wdVars>>

\* q.get(timeout=1) returns a line
DequeueLine ==
    /\ pc = "loop"
    /\ upload_timer < horizon
    /\ \E ln \in feed : Iteration(TRUE, ln)
    /\ UNCHANGED <<cfgVars, queueVars, wdVars>>

Next == Startup \/ DequeueTimeout \/ DequeueLine

Spec == Init /\ [][Next]_vars

-----------------------------------------------------------------------------
(* Runs that feed the smoother: temperature records only *)

InitSmooth ==
    /\ pc = "startup"
    /\ UPLOAD_INTERVAL = Some(SmallInterval)
    /\ WEATHER_UPLOAD = TRUE
    /\ wu_station_id = Some("id")
    /\ wu_station_key = Some("key")
    /\ feed = SmoothFeed
    /\ horizon = SmoothTimer
    /\ LoopInit /\ ObsInit
    /\ wd_in = None /\ wd_out = None

SpecSmooth == InitSmooth /\ [][Next]_vars

-----------------------------------------------------------------------------
(* Runs over the configurations the program can be started with *)

Intervals == {None, Some(-1), Some(0), Some(1), Some(60), Some(3600), Some(3601)}
StationIds == {None, Some("id")}
StationKeys == {None, Some("key")}

InitStartup ==
    /\ pc = "startup"
    /\ UPLOAD_INTERVAL \in Intervals
    /\ WEATHER_UPLOAD = TRUE
    /\ wu_station_id \in StationIds
    /\ wu_station_key \in StationKeys
    /\ feed = StartFeed
    /\ horizon = StartTimer
    /\ LoopInit /\ ObsInit
    /\ wd_in = None /\ wd_out = None

SpecStartup == InitStartup /\ [][Next]_vars

-----------------------------------------------------------------------------
(* Calls of wd_correct on every whole bearing *)

Bearings == 0 .. (FullCircle - 1)

\* wd_out is <<>> before the call and <<result>> after it
CallWdCorrect ==
    /\ wd_out = <<>>
    /\ \E wd \in Bearings :
          /\ wd_in' = Some(wd)
          /\ wd_out' = <<wd_correct(FromInt(wd))>>
    /\ UNCHANGED <<pc, cfgVars, loopVars, obsVars, queueVars>>

\* the program state plays no part in the call
InitWd == InitSmooth

NextWd == CallWdCorrect

SpecWd == InitWd /\ [][NextWd]_vars

-----------------------------------------------------------------------------
(* The reader thread and the queue, lines 231-234 and 280-285 *)

\* lines the reader may put, and iterations explored, in the runs of SpecQueue
MaxStream == 4
QueueTimer == 5

QueueFeed == {Rec({"humidity"}, 0), Rec(Fields, 10), NotJson}

\* queue.put: the queue is unbounded and first-in first-out
QueuePut(queue, item) == Append(queue, item)

\* q.get handing out the newest item
QueueGet_Newest(queue) ==
    [item |-> queue[Len(queue)], rest |-> SubSeq(queue, 1, Len(queue) - 1)]

\* q.get on a queue that holds an item
QueueGet(queue) == [item |-> Head(queue), rest |-> Tail(queue)]

InitQueue ==
    /\ pc = "startup"
    /\ UPLOAD_INTERVAL = Some(SmallInterval)
    /\ WEATHER_UPLOAD = TRUE
    /\ wu_station_id = Some("id")
    /\ wu_station_key = Some("key")
    /\ feed = QueueFeed
    /\ horizon = QueueTimer
    /\ LoopInit /\ ObsInit
    /\ wd_in = None /\ wd_out = None

\* The main thread is past start-up and has not ended
Running == pc \in {"loop", "get", "upload"}

\* enqueue_output: the thread of line 283 reads one line and puts it, wherever
\* the main thread is
EnqueueOutput ==
    /\ Running
    /\ Len(enq) < MaxStream
    /\ \E ln \in feed :
          /\ q' = QueuePut(q, ln)
          /\ enq' = Append(enq, ln)
    /\ putAt' = putAt \cup {pc}
    /\ UNCHANGED <<pc, cfgVars, loopVars, obsVars, deq, wdVars>>

\* line 317, after which the main thread waits in q.get(timeout=1)
LoopTick ==
    /\ pc = "loop"
    /\ upload_timer < horizon
    /\ upload_timer' = upload_timer + 1
    /\ pc' = "get"
    /\ UNCHANGED <<cfgVars, have_hum, have_temp, have_wd, have_ws, pulse,
                   hum, tempC, windDir, windSpeed, roll, tempTrack,
                   obsVars, queueVars, wdVars>>

\* Lines 320-429 from the return of q.get: to the end of the iteration, or,
\* when the iteration calls upload_weather, up to the wait in urlopen
FromGet(got, ln) ==
    LET i == Ingest(upload_timer, got, ln)
    IN  IF i.calls
        THEN /\ pc' = "upload"
             /\ Finish(i, upload_timer, FALSE, FALSE)
             /\ Observe(i, upload_timer, got, ln)
             /\ sent' = [NotSent EXCEPT !.status = "calling"]
        ELSE ToEnd(upload_timer, got, ln)

\* q.get(timeout=1) returns the oldest line of the queue
GetLine ==
    /\ pc = "get"
    /\ q # <<>>
    /\ FromGet(TRUE, QueueGet(q).item)
    /\ q' = QueueGet(q).rest
    /\ deq' = Append(deq, QueueGet(q).item)
    /\ UNCHANGED <<cfgVars, enq, putAt, wdVars>>

\* q.get(timeout=1) raises Empty: the queue is empty when the wait ends
GetTimeout ==
    /\ pc = "get"
    /\ q = <<>>
    /\ FromGet(FALSE, NotJson)
    /\ UNCHANGED <<cfgVars, queueVars, wdVars>>

\* urlopen/read return or raise (lines 264-270), then lines 410-429
UploadReturns ==
    /\ pc = "upload"
    /\ \E netOk \in BOOLEAN :
          LET up    == upload_weather(netOk, windDir)
              upErr == up.raised
          IN  /\ pc' = IF upErr THEN "crashed" ELSE "loop"
              /\ Finish(AtUpload, upload_timer, ~upErr, ~upErr)
              /\ sent' = SentOf(up, tempC)
    /\ UNCHANGED <<cfgVars, lastEvent, tempVerdict, cycleComplete, silentSignal,
                   seen, tempLog, gatePulse, timeouts, lines, timerAtCheck,
                   shown, ever, queueVars, wdVars>>

NextQueue == Startup \/ EnqueueOutput \/ LoopTick \/ GetLine \/ GetTimeout \/ UploadReturns

SpecQueue == InitQueue /\ [][NextQueue]_vars

-----------------------------------------------------------------------------
(* Runs in which an outlier is followed by an acceptable reading *)

OutlierTimer == 7

OutlierTemps == {10, 25, 40}

OutlierFeed ==
    {Rec(Fields, t) : t \in OutlierTemps}
        \cup {Rec({"temperature_C"}, t) : t \in OutlierTemps}
        \cup {Rec(Fields \ {"temperature_C"}, 0)}

InitOutlier ==
    /\ pc = "startup"
    /\ UPLOAD_INTERVAL = Some(SmallInterval)
    /\ WEATHER_UPLOAD = TRUE
    /\ wu_station_id = Some("id")
    /\ wu_station_key = Some("key")
    /\ feed = OutlierFeed
    /\ horizon = OutlierTimer
    /\ LoopInit /\ ObsInit
    /\ wd_in = None /\ wd_out = None

\* no flush has reset upload_timer yet
FirstCycle == (upload_timer > 0) \/ (lastEvent = "none")

OutlierTimeout == FirstCycle /\ DequeueTimeout

OutlierLine == FirstCycle /\ DequeueLine

NextOutlier == Startup \/ OutlierTimeout \/ OutlierLine

SpecOutlier == InitOutlier /\ [][NextOutlier]_vars

-----------------------------------------------------------------------------
(* Runs around the silence threshold *)

\* iterations explored from the starting state of SpecSilent
SilentTimer == 6

\* the number of timeouts before the starting state
SilentStart == pulse_timeout - 1

SilentFeed == {Rec({"humidity"}, 0), Rec({"temperature_C"}, 10), Rec(Fields, 10)}

\* the state of the loop after n iterations that all timed out, n > 0
AfterTimeouts(n) ==
    /\ have_hum = FALSE /\ have_temp = FALSE /\ have_wd = FALSE /\ have_ws = FALSE
    /\ pulse = n /\ upload_timer = n
    /\ hum = <<>> /\ tempC = <<>> /\ windDir = <<>> /\ windSpeed = <<>>
    /\ roll = <<>> /\ tempTrack = <<>>
    /\ lastEvent = "timeout"
    /\ tempVerdict = "none"
    /\ cycleComplete = FALSE
    /\ silentSignal = FALSE
    /\ sent = NotSent
    /\ seen = NothingSeen
    /\ tempLog = <<>>
    /\ gatePulse = n /\ timeouts = n /\ lines = 0
    /\ timerAtCheck = n
    /\ shown = NotShown
    /\ ever = {}
    /\ q = <<>> /\ enq = <<>> /\ deq = <<>> /\ putAt = {}

InitSilent ==
    /\ pc = "loop"
    /\ UPLOAD_INTERVAL = Some(SmallInterval)
    /\ WEATHER_UPLOAD = TRUE
    /\ wu_station_id = Some("id")
    /\ wu_station_key = Some("key")
    /\ feed = SilentFeed
    /\ horizon = SilentStart + SilentTimer
    /\ AfterTimeouts(SilentStart)
    /\ wd_in = None /\ wd_out = None

SilentTimeout == (upload_timer >= SilentStart) /\ DequeueTimeout

SilentLine == (upload_timer >= SilentStart) /\ DequeueLine

NextSilent == SilentTimeout \/ SilentLine

SpecSilent == InitSilent /\ [][NextSilent]_vars

-----------------------------------------------------------------------------
(* Properties *)

BuffersEmpty ==
    (hum = <<>>) /\ (tempC = <<>>) /\ (windDir = <<>>) /\ (windSpeed = <<>>)

BuffersFilled ==
    (hum # <<>>) /\ (tempC # <<>>) /\ (windDir # <<>>) /\ (windSpeed # <<>>)

FlagsFalse ==
    (have_hum = FALSE) /\ (have_temp = FALSE) /\ (have_wd = FALSE) /\ (have_ws = FALSE)

\* C1 as stated: after every iteration that found the cycle complete, the four
\* buffers are empty and the four flags are false.
C1_FlushAfterEveryCompleteCycle ==
    (pc = "loop" /\ cycleComplete) => (BuffersEmpty /\ FlagsFalse)

\* C1 amended: after every iteration that found the cycle complete the four
\* flags are false; the four buffers are empty (and upload_timer is 0) when
\* upload_timer exceeded the upload interval in that iteration, and otherwise
\* the buffers keep their values.
C1_FlagsResetBuffersOnlyWhenDue ==
    (pc = "loop" /\ cycleComplete) =>
        /\ FlagsFalse
        /\ (sent.status # "none") => (BuffersEmpty /\ upload_timer = 0)
        /\ (sent.status = "none") =>
              (BuffersFilled /\ upload_timer \in 1 .. UPLOAD_INTERVAL[1])

C1_Witness ==
    /\ pc = "loop" /\ cycleComplete
    /\ sent.status = "none"
    /\ BuffersFilled
    /\ upload_timer = UPLOAD_INTERVAL[1]

\* C2 as stated: the check finds the cycle complete iff humidity, wind
\* direction, wind speed and an accepted temperature were each ingested since
\* the last flag reset.
C2_CompleteIffEachSeenOnce ==
    (pc = "loop" /\ lastEvent # "none") =>
        (cycleComplete <=> (seen.hum /\ seen.wd /\ seen.ws /\ seen.tempAccepted))

\* C2 amended: the check finds the cycle complete iff humidity, wind direction
\* and wind speed were each ingested since the last flag reset and the latest
\* temperature reading ingested since then was accepted.
C2_CompleteIffLatestTempAccepted ==
    (pc = "loop" /\ lastEvent # "none") =>
        (cycleComplete <=>
            (seen.hum /\ seen.wd /\ seen.ws /\ seen.tempLatest = "accepted"))

C2_Witness ==
    /\ pc = "loop" /\ ~cycleComplete
    /\ seen.hum /\ seen.wd /\ seen.ws
    /\ seen.tempAccepted /\ seen.tempLatest = "rejected"

\* the latest iteration processed reading x after readings a, b, c
AfterReadings(a, b, c, x) ==
    /\ tempVerdict # "none"
    /\ Len(tempLog) >= 4
    /\ LastK(tempLog, 4) = <<a, b, c, x>>

Deviation == RAbs(RSub(FromInt(tempTrack[Len(tempTrack)]), roll))

\* C3 as stated: readings 10, 10, 10 then 20 give an estimate of about 13.33,
\* a deviation above 5, a rejection, and have_temp false.
C3_SpikeRejected ==
    AfterReadings(10, 10, 10, 20) =>
        /\ RLess(<<1333, 100>>, roll) /\ RLess(roll, <<1334, 100>>)
        /\ RLess(FromInt(TempTolerance), Deviation)
        /\ tempVerdict = "rejected"
        /\ have_temp = FALSE

\* C3 amended: readings 10, 10, 10 then 20 give the estimate 140/9 (about
\* 15.56), the deviation 40/9, which is not above 5, an acceptance, and
\* have_temp true.
C3_SpikeAccepted ==
    AfterReadings(10, 10, 10, 20) =>
        /\ roll = <<140, 9>>
        /\ Deviation = <<40, 9>>
        /\ ~RLess(FromInt(TempTolerance), Deviation)
        /\ tempVerdict = "accepted"
        /\ have_temp = TRUE

C3_Witness ==
    /\ AfterReadings(10, 10, 10, 20)
    /\ pc = "loop"
    /\ lastEvent = "record"

\* C4: after a temperature reading is pushed, roll = mean(W) + (latest -
\* mean(W)) / |W| with W the whole history when shorter than 3 and its last 3
\* entries otherwise, and have_temp is set to |latest - roll| <= 5.
C4_EstimateAndDecision ==
    (tempVerdict # "none") =>
        LET W == IF Len(tempTrack) < 3 THEN tempTrack
                 ELSE SubSeq(tempTrack, Len(tempTrack) - 2, Len(tempTrack))
            n == Len(W)
            S == Sum(W)
            x == tempTrack[Len(tempTrack)]
            \* n*n*(S/n + (x - S/n)/n) = n*S + n*x - S
            est == n * S + n * x - S
            within == Abs(n * n * x - est) <= TempTolerance * n * n
        IN  /\ roll[1] * n * n = roll[2] * est
            /\ tempVerdict = (IF within THEN "accepted" ELSE "rejected")
            /\ ~cycleComplete => (have_temp = within)

C4_Witness ==
    /\ AfterReadings(10, 10, 10, 13)
    /\ roll = <<35, 3>>
    /\ tempVerdict = "accepted" /\ have_temp

IsSuffix(s, t) == Len(s) <= Len(t) /\ s = LastK(t, Len(s))

Min(a, b) == IF a < b THEN a ELSE b

\* C5: tempTrack has at most 5 entries and is the run of the most recent
\* processed temperature readings in arrival order; it is never emptied once a
\* reading was processed, in particular not by a flush.
C5_HistoryBoundedSuffix ==
    /\ Len(tempTrack) <= rollingAveNum
    /\ IsSuffix(tempTrack, tempLog)
    /\ Len(tempTrack) >= Min(Len(tempLog), rollingAveNum - 1)

C5_Witness ==
    /\ Len(tempLog) = 6 /\ Len(tempTrack) = 4
    /\ cycleComplete /\ sent.status = "ok" /\ BuffersEmpty

\* C6: wd_correct returns (wd - 90) mod 360 for every bearing wd in [0, 360).
C6_WdCorrectValue ==
    (wd_out # <<>>) => (wd_out[1] = FromInt((wd_in[1] - WdShift) % FullCircle))

\* C7: a line that cannot be parsed is skipped: the loop goes on and no
\* buffer, flag or history has changed.
C7_MalformedLineSkipped ==
    (lastEvent = "malformed") => (pc = "loop")

\* C8: a failed network request leaves the loop running, with upload_timer
\* reset and everything flushed as after a successful upload.
C8_UploadFailureContained ==
    (sent.status = "failed") =>
        /\ pc = "loop"
        /\ cycleComplete
        /\ upload_timer = 0 /\ pulse = 0
        /\ BuffersEmpty /\ FlagsFalse

C8_Witness ==
    /\ sent.status = "failed"
    /\ pc = "loop"
    /\ lastEvent = "record"

\* C9: pulse after the update of lines 325/328 is the number of timeouts minus
\* the number of lines dequeued since pulse was last reset, and it stays at
\* that value unless the iteration resets it.
C9_PulseIsTimeoutsMinusLines ==
    (pc \in {"loop", "crashed"}) =>
        /\ gatePulse = timeouts - lines
        /\ (upload_timer # 0) => (pulse = gatePulse)
        /\ (upload_timer = 0) => (pulse = 0)

C9_Witness ==
    /\ timeouts = 3 /\ lines = 1
    /\ lastEvent = "record"
    /\ gatePulse = 2 /\ pulse = 2

ConfigMissing ==
    (UPLOAD_INTERVAL = None) \/ (wu_station_id = None) \/ (wu_station_key = None)

\* C10 as stated: start-up exits with code 1 exactly when the interval is
\* missing or outside (0, 3600] or the station id or key is missing.
C10_ExitOnIntervalOutsideRange ==
    (pc # "startup") =>
        ((pc = "exit1") <=>
            (ConfigMissing \/ UPLOAD_INTERVAL[1] <= 0 \/ UPLOAD_INTERVAL[1] > MaxInterval))

\* C10 amended: start-up exits with code 1, the loop not entered, exactly when
\* the interval is missing or above 3600 or the station id or key is missing;
\* any other interval, zero and negative included, enters the loop, which is
\* left only by an uncaught exception.
C10_ExitOnMissingOrAbove3600 ==
    (pc # "startup") =>
        /\ (pc = "exit1") <=> (ConfigMissing \/ UPLOAD_INTERVAL[1] > MaxInterval)
        /\ (pc = "exit1") => (lastEvent = "none" /\ upload_timer = 0)
        /\ (pc # "exit1") => (pc \in {"loop", "crashed"})

C10_Witness ==
    /\ pc = "loop"
    /\ UPLOAD_INTERVAL = Some(0)
    /\ lastEvent = "timeout"

Uploaded == sent.status \in {"ok", "failed"}

\* C11: upload_timer grows by one in every iteration (it counts the
\* iterations since its last reset); upload_weather is called only in an
\* iteration that found the cycle complete with upload_timer above the
\* interval, and upload_timer is reset to 0 in exactly the iterations that
\* found the cycle complete with upload_timer above the interval, so more than
\* UPLOAD_INTERVAL iterations lie between two uploads.
C11_TimerCountsIterationsUploadOnlyWhenDue ==
    (pc \in {"loop", "crashed"}) =>
        /\ timerAtCheck = timeouts + lines
        /\ (upload_timer # 0) => (upload_timer = timerAtCheck)
        /\ Uploaded => (cycleComplete /\ timerAtCheck > UPLOAD_INTERVAL[1])
        /\ (lastEvent # "none") =>
              ((upload_timer = 0) <=>
                  (cycleComplete /\ timerAtCheck > UPLOAD_INTERVAL[1]))

C11_Witness ==
    /\ sent.status = "ok"
    /\ timerAtCheck = UPLOAD_INTERVAL[1] + 1
    /\ timeouts + lines = UPLOAD_INTERVAL[1] + 1
    /\ upload_timer = 0

\* a step that is one loop iteration
IterationStep == (pc = "loop") /\ (timerAtCheck' = upload_timer + 1)

HumWdWsMonotone ==
    /\ (have_hum /\ ~cycleComplete') => have_hum'
    /\ (have_wd /\ ~cycleComplete') => have_wd'
    /\ (have_ws /\ ~cycleComplete') => have_ws'
    /\ (~have_hum /\ have_hum') => (lastEvent' = "record" /\ Len(hum') = Len(hum) + 1)
    /\ (~have_wd /\ have_wd') => (lastEvent' = "record" /\ Len(windDir') = Len(windDir) + 1)
    /\ (~have_ws /\ have_ws') =>
          (lastEvent' = "record" /\ Len(windSpeed') = Len(windSpeed) + 1)
    /\ (~have_temp /\ have_temp') => (lastEvent' = "record" /\ tempVerdict' = "accepted")

\* C12 as stated: in every iteration a flag turns true only when its field is
\* in the processed record, and a true flag stays true unless the iteration
\* found the cycle complete.
C12_FlagsMonotoneUntilComplete ==
    [][IterationStep =>
        /\ HumWdWsMonotone
        /\ (have_temp /\ ~cycleComplete') => have_temp']_vars

\* C12 amended: the humidity, wind direction and wind speed flags turn true
\* only when their field is in the processed record and then stay true until
\* the iteration that finds the cycle complete; the temperature flag turns
\* true only on an accepted reading and turns false again before completion
\* exactly when a processed temperature reading is rejected.
C12_FlagsMonotoneExceptRejectedTemp ==
    [][IterationStep =>
        /\ HumWdWsMonotone
        /\ (have_temp /\ ~cycleComplete') => (have_temp' <=> tempVerdict' # "rejected")]_vars

C12_Witness ==
    /\ pc = "loop"
    /\ have_hum /\ ~have_wd /\ ~have_temp
    /\ seen.tempAccepted /\ tempVerdict = "rejected"

\* C13 as stated: after every iteration that found the cycle complete, pulse
\* is 0.
C13_PulseZeroAfterEveryCompleteCycle ==
    (pc = "loop" /\ cycleComplete) => (pulse = 0)

\* C13 amended: after an iteration that found the cycle complete, pulse is 0
\* (with the buffers empty) when upload_timer exceeded the upload interval in
\* that iteration, and otherwise pulse keeps the positive value that lines
\* 325/328 gave it.
C13_PulseZeroOnlyWhenDue ==
    (pc = "loop" /\ cycleComplete) =>
        /\ (timerAtCheck > UPLOAD_INTERVAL[1]) => (pulse = 0 /\ BuffersEmpty)
        /\ (timerAtCheck <= UPLOAD_INTERVAL[1]) => (pulse = gatePulse /\ pulse > 0)

C13_Witness ==
    /\ pc = "loop" /\ cycleComplete
    /\ timerAtCheck <= UPLOAD_INTERVAL[1]
    /\ pulse = gatePulse /\ pulse >= 1

\* C14: display_data and upload_weather are called only in an iteration whose
\* check found all four flags true, and only after each of the four fields has
\* been in a processed record; while a field has never been processed neither
\* is called.
C14_NoDisplayWithoutEveryChannel ==
    (pc \in {"loop", "crashed"}) =>
        /\ (shown.called \/ Uploaded) =>
              /\ cycleComplete
              /\ seen.hum /\ seen.wd /\ seen.ws /\ seen.tempLatest = "accepted"
              /\ Fields \subseteq ever
        /\ (ever # Fields) => (~shown.called /\ sent.status = "none")

C14_Witness ==
    /\ pc = "loop"
    /\ ever = Fields \ {"wind_speed_ms"}
    /\ have_hum /\ have_wd /\ have_temp
    /\ lastEvent = "record"
    /\ timerAtCheck >= UPLOAD_INTERVAL[1] + 2
    /\ ~shown.called /\ sent.status = "none"

\* C15: a line is processed only when pulse is above 0 after its decrement; a
\* line dequeued with pulse then at or below 0 is not parsed and changes
\* nothing but pulse and upload_timer.
C15_GatedLineChangesOnlyCounters ==
    [][(IterationStep /\ lastEvent' # "timeout") =>
        /\ gatePulse' = pulse - 1
        /\ (gatePulse' > 0) => (lastEvent' \in {"record", "malformed"})
        /\ (gatePulse' <= 0) =>
              /\ lastEvent' = "gated"
              /\ pc' = "loop"
              /\ pulse' = pulse - 1
              /\ upload_timer' = upload_timer + 1
              /\ UNCHANGED <<hum, tempC, windDir, windSpeed, roll, tempTrack>>
              /\ UNCHANGED <<have_hum, have_temp, have_wd, have_ws>>
              /\ ~shown'.called /\ sent'.status = "none"]_vars

C15_Witness ==
    /\ pc = "loop"
    /\ lastEvent = "gated" /\ gatePulse = 0
    /\ have_hum /\ hum # <<>>
    /\ pulse = 0 /\ upload_timer = timerAtCheck

\* a step of the main thread
MainStep == Running /\ (pc' # pc)

\* C16: the lines got are the lines put, each once and in the order put, the
\* rest waiting in the queue in that order; a put, wherever it finds the main
\* thread (between iterations, waiting in q.get or waiting in urlopen),
\* changes no loop state, and only the main thread's return from q.get takes
\* a line off the queue.
C16_QueueDeliversInOrderOnce ==
    [][/\ enq' = deq' \o q'
       /\ (enq' # enq) =>
             /\ q' = Append(q, enq'[Len(enq')])
             /\ deq' = deq
             /\ UNCHANGED <<pc, loopVars, obsVars>>
       /\ (deq' # deq) =>
             /\ pc = "get" /\ pc' # "get"
             /\ q # <<>> /\ deq' = Append(deq, Head(q)) /\ q' = Tail(q)
             /\ enq' = enq
       /\ (loopVars' # loopVars \/ obsVars' # obsVars) =>
             (MainStep /\ enq' = enq)
       /\ (pc = "upload" /\ pc' = "loop") => (q' = q /\ deq' = deq)]_vars

\* lines were put while the main thread waited in q.get and in urlopen; the
\* main thread is in urlopen with every flag set and a line waiting
C16_Witness ==
    /\ pc = "upload"
    /\ {"get", "upload"} \subseteq putAt
    /\ have_hum /\ have_temp /\ have_wd /\ have_ws
    /\ upload_timer > UPLOAD_INTERVAL[1] /\ hum # <<>>
    /\ deq # <<>> /\ q # <<>>
    /\ enq = deq \o q

\* a put found the main thread waiting in q.get of the first iteration
PutDuringFirstGet ==
    /\ pc = "get" /\ upload_timer = 1 /\ pulse = 0
    /\ putAt = {"get"} /\ Len(q) = 1

\* C17: the stream-silent message is printed only in an iteration that
\* processed a record and found the cycle complete with pulse above
\* pulse_timeout; an iteration that timed out never prints it, however far
\* pulse is above pulse_timeout.
C17_SilentSignalOnlyOnCompleteCycle ==
    (pc \in {"loop", "crashed"}) =>
        /\ silentSignal =>
              (lastEvent = "record" /\ cycleComplete /\ gatePulse > pulse_timeout)
        /\ (lastEvent = "timeout") => ~silentSignal

C17_Witness ==
    /\ pc = "loop"
    /\ lastEvent = "timeout" /\ lines = 0
    /\ gatePulse > pulse_timeout + 2
    /\ ~silentSignal

\* the message is printed once a record completes the cycle
SilentSignalPrinted == silentSignal /\ lastEvent = "record" /\ shown.called

\* C18: whenever display_data is called, and so whenever upload_weather is,
\* hum, windDir and windSpeed each hold at least one value and tempC holds a
\* value; no aggregate is taken over empty data and neither call fails for
\* want of data.
C18_DisplayAndUploadHaveData ==
    /\ shown.called =>
          /\ shown.h # <<>> /\ shown.wd # <<>> /\ shown.ws # <<>>
          /\ shown.c # <<>>
          /\ ~display_data(shown.h, shown.c, shown.wd, shown.ws).raised
    /\ Uploaded => (shown.called /\ sent.tempC # None)
    /\ sent.status # "raised"
    /\ (lastEvent = "record") => (pc = "loop")

C18_Witness ==
    /\ pc = "loop"
    /\ shown.called /\ Uploaded
    /\ Len(shown.h) >= 2 /\ Len(shown.wd) = 1 /\ Len(shown.ws) = 1

\* the deviation of reading x from the current estimate
DeviationOf(x) == RAbs(RSub(FromInt(x), roll))

\* C19: the temperature given to display_data and upload_weather is the most
\* recently processed reading and is within the tolerance of the estimate; a
\* rejected reading is stored in tempC but the iteration that rejected it
\* neither displays nor uploads, and have_temp stays false after it.
C19_ShownTempIsLatestAcceptedReading ==
    /\ shown.called =>
          /\ tempLog # <<>> /\ tempTrack # <<>>
          /\ shown.c = Some(tempLog[Len(tempLog)])
          /\ shown.c = Some(tempTrack[Len(tempTrack)])
          /\ ~RLess(FromInt(TempTolerance), DeviationOf(shown.c[1]))
          /\ seen.tempLatest = "accepted"
    /\ Uploaded => (shown.called /\ sent.tempC = shown.c)
    /\ (tempVerdict = "rejected") =>
          /\ tempC = Some(tempLog[Len(tempLog)])
          /\ RLess(FromInt(TempTolerance), DeviationOf(tempC[1]))
          /\ ~shown.called /\ ~Uploaded /\ ~have_temp

\* 40 after 10 is rejected, then 25 is accepted, displayed and uploaded
C19_Witness ==
    /\ pc = "loop"
    /\ Len(tempLog) >= 3 /\ LastK(tempLog, 3) = <<10, 40, 25>>
    /\ shown.called /\ shown.c = Some(25)
    /\ Uploaded /\ sent.tempC = Some(25)

\* a rejected reading is what tempC holds
RejectedStored ==
    /\ pc = "loop" /\ tempVerdict = "rejected"
    /\ tempC = Some(40) /\ LastK(tempLog, 2) = <<10, 40>>

\* the latest three processed temperature readings are equal
ThreeEqual ==
    /\ Len(tempLog) >= 3
    /\ tempLog[Len(tempLog)] = tempLog[Len(tempLog) - 1]
    /\ tempLog[Len(tempLog)] = tempLog[Len(tempLog) - 2]

\* C20: a rejected reading is still the newest entry of tempTrack, and a
\* reading that equals the two readings processed before it is accepted,
\* with the estimate equal to it and have_temp set, whatever came earlier.
C20_ThreeEqualReadingsAccepted ==
    /\ (tempVerdict = "rejected") =>
          (tempTrack # <<>> /\ tempTrack[Len(tempTrack)] = tempLog[Len(tempLog)])
    /\ (tempVerdict # "none" /\ ThreeEqual) =>
          /\ tempVerdict = "accepted"
          /\ roll = FromInt(tempLog[Len(tempLog)])
          /\ have_temp = TRUE

\* 40 after 10 is rejected, the second 40 too, the third 40 is accepted
C20_Witness ==
    /\ pc = "loop"
    /\ AfterReadings(10, 40, 40, 40)
    /\ tempTrack = <<10, 40, 40, 40>>
    /\ tempVerdict = "accepted" /\ have_temp

\* the second of three equal readings after an outlier is rejected
SecondEqualRejected ==
    /\ Len(tempLog) = 3 /\ tempLog = <<10, 40, 40>>
    /\ tempVerdict = "rejected"

====
